---- MODULE Spec2Model ----
(***************************************************************************)
(* A model of the Hedera BDD test harness                                  *)
(* (src/features/step_definitions/create-simple-topic.ts and the token     *)
(* steps of src/unnamed/part_000).                                         *)
(*                                                                         *)
(* The harness is single-threaded JavaScript: every synchronous stretch of *)
(* code between two awaits / callbacks is one atomic action here, and the  *)
(* ledger network (the SDK) is the environment: it decides when a message  *)
(* is delivered, when a subscription errors, whether a transaction gets    *)
(* its receipt or fails, and what an account's live balance is.            *)
(*                                                                         *)
(* The specifications share the variables; each one drives one part of the *)
(* harness and leaves the others in their initial state:                   *)
(*   SubSpec / SubFairSpec  subscribeToTopic     (Topic Subscription)      *)
(*   PubSpec                MessagePublisher     (batching publisher)      *)
(*   TeardownSpec           the After hook       (resource tracker)        *)
(*   CacheSpec              getHbarBalance       (balance cache)           *)
(*   ResolverSpec           the two 'first account' steps                  *)
(*   TopicStepsSpec         the topic steps and their transactions         *)
(*   PipelineSpec           the steps of either file, one file per run     *)
(*   TransferSpec           the token transfer steps                       *)
(*   MintSpec               token creation and the mint steps              *)
(*   FeePayerSpec           transfer creation, submission, fee payer       *)
(*   ScenarioSpec           topic scenarios ended by the After hook        *)
(***************************************************************************)
EXTENDS Integers, Sequences, FiniteSets, TLC

VARIABLES
    now,                \* Date.now() / the timer clock, in ms
    \* ---- subscribeToTopic (one wait) ----
    promise,            \* the Promise returned by subscribeToTopic
    timeoutId,          \* the setTimeout timer: "none" | "armed" | "cleared" | "fired"
    deadline,           \* the time at which timeoutId expires
    subscriptionHandle, \* "none" | "live" | "unsubscribed"
    expectedMessage,    \* the expectedMessage argument (decoded text)
    observed,           \* history: kinds of callbacks the SDK has delivered so far
    \* ---- MessagePublisher ----
    pendingMessages,    \* this.pendingMessages: sequence of queued entries
    flushes,            \* one record per flushMessages() call made so far
    nextMsg,            \* number of publish() calls made so far (entry identity)
    \* ---- context.createdResources, After hook ----
    topics,             \* context.createdResources.topics
    createdAccounts,    \* context.createdResources.accounts
    hook,               \* the running After hook: its position and what it did
    nextTopic,          \* number of topics created so far (TopicId identity)
    nextAccount,        \* number of accounts created so far (AccountId identity)
    \* ---- balance cache ----
    balanceCache,       \* Map accountId -> {balance, timestamp} ("absent" if no entry)
    liveBalance,        \* the network's balance of each account
    calls,              \* getHbarBalance calls awaiting their live AccountBalanceQuery
    returns,            \* history: the last returns of getHbarBalance
    \* ---- the steps: resolver, context, clients ----
    resolver,           \* the running / last run of an account-pool resolver step
    operator,           \* the operator of each file's client (client.setOperator)
    context,            \* the topic steps' context (without createdResources)
    firstAccount,       \* the token steps' module variable firstAccount
    \* ---- the transaction pipeline ----
    call,               \* the running / last run step: its position and its transaction
    transferTransaction,\* the token steps' module variable transferTransaction
    transactionRecord,  \* the fee payer in the token steps' transactionRecord
    tokens              \* the network's token balance of the token's treasury

subVars   == <<promise, timeoutId, deadline, subscriptionHandle, expectedMessage, observed>>
pubVars   == <<pendingMessages, flushes, nextMsg>>
resVars   == <<topics, createdAccounts, hook, nextTopic, nextAccount>>
cacheVars == <<balanceCache, liveBalance, calls, returns>>
bindVars  == <<operator, context, firstAccount>>
pipeVars  == <<call, transferTransaction, transactionRecord, tokens>>
stepVars  == <<resolver, bindVars, pipeVars>>
vars      == <<now, subVars, pubVars, resVars, cacheVars, stepVars>>

(***************************************************************************)
(* Bounds of the model                                                     *)
(***************************************************************************)
TickMs    == 2500   \* granularity of the clock
MaxTicks  == 5      \* the clock of a subscription stops at MaxTicks * TickMs
MaxCacheTicks == 2  \* the clock of the balance cache stops at MaxCacheTicks * TickMs
MaxMsgLen == 1      \* longest message payload, in bytes
MaxPublish == 6     \* publish() calls in one behaviour
MaxFlushes == 2     \* explicit flushMessages() calls in one behaviour
MaxCalls   == 1     \* getHbarBalance() calls awaiting their query at one time
MaxReturns == 2     \* returns of getHbarBalance() the history keeps
MaxTopics  == 2     \* topics created in one behaviour
MaxAccounts == 1    \* accounts created in one behaviour
MaxHookPublish == 2 \* publish() calls in one behaviour of the teardown specification
MaxHookCalls == 1   \* the same at one time in the teardown specification
MaxHooks   == 1     \* runs of the After hook in one behaviour
MaxKeyCount == 3    \* largest argument of the threshold key step
MaxTokens == 200    \* largest token balance of the treasury
MaxSubmits == 1     \* submissions of one transferTransaction

MaxNow == MaxTicks * TickMs

Tick(ticks) ==
    /\ now + TickMs <= ticks * TickMs
    /\ now' = now + TickMs

(***************************************************************************)
(* Promises (new Promise((resolve, reject) => ...)): the first resolve or  *)
(* reject settles the promise, every later one is ignored.                 *)
(***************************************************************************)
NoError        == [kind |-> "none", text |-> <<>>]
NoPromise      == [state |-> "none",    reason |-> NoError]
PendingPromise == [state |-> "pending", reason |-> NoError]

Resolve(p) ==
    IF p.state = "pending" THEN [state |-> "resolved", reason |-> NoError] ELSE p

\* Mutant of Reject: a settled promise is rejected again
Reject_Overwrite(p, error) == [state |-> "rejected", reason |-> error]

Reject(p, error) ==
    IF p.state = "pending" THEN [state |-> "rejected", reason |-> error] ELSE p

Settled(p) == p.state \in {"resolved", "rejected"}

\* clearTimeout(timeoutId): cancels a timer that has not fired yet
ClearTimeout(t) == IF t = "armed" THEN "cleared" ELSE t

\* subscriptionHandle.unsubscribe()
Unsubscribe(h) == IF h = "live" THEN "unsubscribed" ELSE h

(***************************************************************************)
(* Message payloads are byte sequences; Buffer.from(contents).toString()  *)
(* decodes them as UTF-8: an ASCII byte is its own code point, a byte that *)
(* is not valid UTF-8 (here 0xFF) becomes U+FFFD.  Text is a sequence of   *)
(* code points.                                                            *)
(***************************************************************************)
ByteVals == {104, 105, 255}

SeqsUpTo(S, n) == UNION {[1..k -> S] : k \in 1..n}

Contents == SeqsUpTo(ByteVals, MaxMsgLen)

DecodeByte(b) == IF b < 128 THEN b ELSE 65533

BufferToString(contents) == [i \in 1..Len(contents) |-> DecodeByte(contents[i])]

Texts == SeqsUpTo({104, 105, 65533}, MaxMsgLen)

DEFAULT_TIMEOUT == 10000

Timeouts == {DEFAULT_TIMEOUT, TickMs}

SubscriptionErrors ==
    {[kind |-> k, text |-> <<>>] : k \in {"transport error", "consensus error"}}

\* new Error(`Timeout waiting for message: ${expectedMessage}`)
TimeoutError(expected) == [kind |-> "Timeout waiting for message", text |-> expected]

(***************************************************************************)
(* subscribeToTopic(topicId, expectedMessage, timeout)                     *)
(***************************************************************************)
SubIdle ==
    /\ promise = NoPromise
    /\ timeoutId = "none"
    /\ deadline = 0
    /\ subscriptionHandle = "none"
    /\ expectedMessage = <<>>
    /\ observed = {}

\* The Promise executor: arm the timer, open the subscription.
subscribeToTopic(expected, timeout) ==
    /\ promise.state = "none"
    /\ now + timeout <= MaxNow
    /\ promise' = PendingPromise
    /\ timeoutId' = "armed"
    /\ deadline' = now + timeout
    /\ subscriptionHandle' = "live"
    /\ expectedMessage' = expected
    /\ UNCHANGED observed

\* Mutant of onTimeout: the timer is armed without its delay and fires at once
onTimeout_NoDelay ==
    /\ timeoutId = "armed"
    /\ timeoutId' = "fired"
    /\ promise' = Reject(promise, TimeoutError(expectedMessage))
    /\ UNCHANGED <<deadline, subscriptionHandle, expectedMessage, observed>>

\* The setTimeout callback: reject(new Error("Timeout waiting for message ..."))
onTimeout ==
    /\ timeoutId = "armed"
    /\ now >= deadline
    /\ timeoutId' = "fired"
    /\ promise' = Reject(promise, TimeoutError(expectedMessage))
    /\ UNCHANGED <<deadline, subscriptionHandle, expectedMessage, observed>>

\* Mutant of onError: the error callback forgets clearTimeout
onError_NoClear(error) ==
    /\ subscriptionHandle = "live"
    /\ promise' = Reject(promise, error)
    /\ observed' = observed \cup {"error"}
    /\ UNCHANGED <<timeoutId, deadline, subscriptionHandle, expectedMessage>>

\* The subscription's error callback: clearTimeout(timeoutId); reject(error)
onError(error) ==
    /\ subscriptionHandle = "live"
    /\ timeoutId' = ClearTimeout(timeoutId)
    /\ promise' = Reject(promise, error)
    /\ observed' = observed \cup {"error"}
    /\ UNCHANGED <<deadline, subscriptionHandle, expectedMessage>>

\* Mutant of onMessage: a match forgets clearTimeout
onMessage_NoClear(contents) ==
    /\ subscriptionHandle = "live"
    /\ LET decodedContent == BufferToString(contents) IN
       IF decodedContent = expectedMessage
       THEN /\ subscriptionHandle' = Unsubscribe(subscriptionHandle)
            /\ promise' = Resolve(promise)
            /\ observed' = observed \cup {"match"}
            /\ UNCHANGED timeoutId
       ELSE /\ observed' = observed \cup {"other"}
            /\ UNCHANGED <<timeoutId, subscriptionHandle, promise>>
    /\ UNCHANGED <<deadline, expectedMessage>>

\* The subscription's message callback
onMessage(contents) ==
    /\ subscriptionHandle = "live"
    /\ LET decodedContent == BufferToString(contents) IN
       IF decodedContent = expectedMessage
       THEN /\ timeoutId' = ClearTimeout(timeoutId)
            /\ subscriptionHandle' = Unsubscribe(subscriptionHandle)
            /\ promise' = Resolve(promise)
            /\ observed' = observed \cup {"match"}
       ELSE /\ observed' = observed \cup {"other"}
            /\ UNCHANGED <<timeoutId, subscriptionHandle, promise>>
    /\ UNCHANGED <<deadline, expectedMessage>>

(***************************************************************************)
(* class MessagePublisher                                                  *)
(*                                                                         *)
(* A queued entry is identified by the number of the publish() call that   *)
(* queued it.  A flush record is one flushMessages() call: the snapshot it *)
(* took (batch), the state of the submission of every snapshot entry       *)
(* (status), the promise of Promise.all (promise), the number of publish() *)
(* calls made before it started (startedAt) and who called it (caller).    *)
(***************************************************************************)
BATCH_SIZE == 5

PubIdle ==
    /\ pendingMessages = <<>>
    /\ flushes = <<>>
    /\ nextMsg = 0

\* Promise.all over the submissions: rejected as soon as one of them is
\* rejected, resolved once all of them are fulfilled.
PromiseAll(p, status) ==
    IF p # "pending" THEN p
    ELSE IF \E i \in DOMAIN status : status[i] = "failed" THEN "rejected"
    ELSE IF \A i \in DOMAIN status : status[i] = "receipted" THEN "resolved"
    ELSE "pending"

\* Mutant of flushMessages: the queue is not reset after the snapshot
flushMessages_NoReset(queue, fs, published, caller) ==
    LET messages == queue
        status   == [i \in 1..Len(messages) |-> "inflight"]
    IN  [pendingMessages |-> queue,
         flushes |-> Append(fs, [batch     |-> messages,
                                 status    |-> status,
                                 promise   |-> PromiseAll("pending", status),
                                 startedAt |-> published,
                                 caller    |-> caller])]

\* flushMessages() up to its await: snapshot, reset the queue, start one
\* submission per snapshot entry.  The result is the new queue and flush list.
flushMessages(queue, fs, published, caller) ==
    LET messages == queue
        status   == [i \in 1..Len(messages) |-> "inflight"]
    IN  [pendingMessages |-> <<>>,
         flushes |-> Append(fs, [batch     |-> messages,
                                 status    |-> status,
                                 promise   |-> PromiseAll("pending", status),
                                 startedAt |-> published,
                                 caller    |-> caller])]

\* Mutant of publish: the threshold test is > instead of >=
publish_OffByOne(cap) ==
    /\ nextMsg < cap
    /\ nextMsg' = nextMsg + 1
    /\ LET queue == Append(pendingMessages, nextMsg + 1) IN
       IF Len(queue) > BATCH_SIZE
       THEN LET r == flushMessages(queue, flushes, nextMsg + 1, "publish") IN
            /\ pendingMessages' = r.pendingMessages
            /\ flushes' = r.flushes
       ELSE /\ pendingMessages' = queue
            /\ UNCHANGED flushes

\* publish(message, topicId, submitKey)
publish(cap) ==
    /\ nextMsg < cap
    /\ nextMsg' = nextMsg + 1
    /\ LET queue == Append(pendingMessages, nextMsg + 1) IN
       IF Len(queue) >= BATCH_SIZE
       THEN LET r == flushMessages(queue, flushes, nextMsg + 1, "publish") IN
            /\ pendingMessages' = r.pendingMessages
            /\ flushes' = r.flushes
       ELSE /\ pendingMessages' = queue
            /\ UNCHANGED flushes

\* An explicit call of messagePublisher.flushMessages()
explicitFlush ==
    /\ Cardinality({k \in DOMAIN flushes : flushes[k].caller = "explicit"}) < MaxFlushes
    /\ LET r == flushMessages(pendingMessages, flushes, nextMsg, "explicit") IN
       /\ pendingMessages' = r.pendingMessages
       /\ flushes' = r.flushes
    /\ UNCHANGED nextMsg

\* The flush record k after the submission of its i-th entry ended with `outcome`
submissionEnds(f, i, outcome) ==
    LET status == [f.status EXCEPT ![i] = outcome] IN
    [f EXCEPT !.status = status, !.promise = PromiseAll(f.promise, status)]

\* executeTransaction(submitTx) returns the receipt of entry i of flush k
submitReceipted(k, i) ==
    /\ flushes[k].status[i] = "inflight"
    /\ flushes' = [flushes EXCEPT ![k] = submissionEnds(flushes[k], i, "receipted")]
    /\ UNCHANGED <<pendingMessages, nextMsg>>

\* freezeWith, sign, execute or getReceipt of entry i of flush k throws
submitFailed(k, i) ==
    /\ flushes[k].status[i] = "inflight"
    /\ flushes' = [flushes EXCEPT ![k] = submissionEnds(flushes[k], i, "failed")]
    /\ UNCHANGED <<pendingMessages, nextMsg>>

submissionStep ==
    \E k \in DOMAIN flushes : \E i \in DOMAIN flushes[k].status :
        submitReceipted(k, i) \/ submitFailed(k, i)

(***************************************************************************)
(* Balance cache: balanceCache, CACHE_TTL, getHbarBalance                  *)
(*                                                                         *)
(* calls holds the getHbarBalance calls that await their live query: the   *)
(* account, and whether the call found an expired entry (stale) or none.   *)
(* returns holds the last returns of getHbarBalance, newest last: the      *)
(* account, whether the cache answered (hit), whether the call had found   *)
(* an expired entry (stale), the value returned (value) and the network's  *)
(* balance when the call returned (live).                                  *)
(* Balances are whole hbar amounts, which toBigNumber().toNumber() yields  *)
(* exactly.                                                                *)
(***************************************************************************)
CACHE_TTL == 5000

AccountIds == {"0.0.1001", "0.0.1002"}

Balances == {5, 15}

Absent == [present |-> FALSE, balance |-> 0, timestamp |-> 0]

Entry(balance, timestamp) == [present |-> TRUE, balance |-> balance, timestamp |-> timestamp]

EmptyCache == [a \in AccountIds |-> Absent]

CacheIdle ==
    /\ balanceCache = EmptyCache
    /\ liveBalance = [a \in AccountIds |-> 15]
    /\ calls = <<>>
    /\ returns = <<>>

\* The history of returns keeps the last `keep` of them
Returned(history, r, keep) ==
    LET all == Append(history, r) IN
    IF keep = 0 THEN <<>> ELSE IF Len(all) > keep THEN Tail(all) ELSE all

\* Mutant of IsFresh: the age test is <= instead of <
IsFresh_Inclusive(cached, t) == cached.present /\ t - cached.timestamp <= CACHE_TTL

\* cached && Date.now() - cached.timestamp < CACHE_TTL
IsFresh(cached, t) == cached.present /\ t - cached.timestamp < CACHE_TTL

\* getHbarBalance(account) up to its return (cache hit) or its await (miss)
getHbarBalance(account, cap, keep) ==
    /\ Len(calls) < cap
    /\ LET cached == balanceCache[account] IN
       IF IsFresh(cached, now)
       THEN /\ returns' = Returned(returns, [account |-> account, hit |-> TRUE,
                                             stale |-> FALSE, value |-> cached.balance,
                                             live |-> liveBalance[account]], keep)
            /\ UNCHANGED calls
       ELSE /\ calls' = Append(calls, [account |-> account, stale |-> cached.present])
            /\ UNCHANGED returns
    /\ UNCHANGED <<balanceCache, liveBalance>>

\* The sequence s without its c-th element
Without(s, c) == SubSeq(s, 1, c - 1) \o SubSeq(s, c + 1, Len(s))

\* The AccountBalanceQuery of call c answers: store and return the balance
balanceQueryReturns(c, keep) ==
    /\ LET account == calls[c].account
           balance == liveBalance[account]
       IN  /\ balanceCache' = [balanceCache EXCEPT ![account] = Entry(balance, now)]
           /\ returns' = Returned(returns, [account |-> account, hit |-> FALSE,
                                            stale |-> calls[c].stale, value |-> balance,
                                            live |-> balance], keep)
    /\ calls' = Without(calls, c)
    /\ UNCHANGED liveBalance

\* The network: the balance of an account changes
liveBalanceChanges(account, balance) ==
    /\ liveBalance[account] # balance
    /\ liveBalance' = [liveBalance EXCEPT ![account] = balance]
    /\ UNCHANGED <<balanceCache, calls, returns>>

(***************************************************************************)
(* context.createdResources and the After hook                             *)
(*                                                                         *)
(* hook.pc: "idle" (no hook has run), "flushing" (awaiting flushMessages), *)
(* "deleting" (awaiting the deletion of topics[hook.i]), "done" (the hook  *)
(* returned), "failed" (the hook threw).  hook.flush is the flush record   *)
(* the hook awaits, hook.attempted the topics whose deletion this run of   *)
(* the hook has started, hook.logged the topics whose deletion failure it  *)
(* has logged, hook.tracked the tracked topics when the hook started.      *)
(***************************************************************************)
IdleHook ==
    [pc |-> "idle", flush |-> 0, i |-> 0, attempted |-> <<>>, logged |-> <<>>,
     tracked |-> <<>>]

ResIdle ==
    /\ topics = <<>>
    /\ createdAccounts = <<>>
    /\ hook = IdleHook
    /\ nextTopic = 0
    /\ nextAccount = 0

HookRunning == hook.pc \in {"flushing", "deleting"}

\* createTopic / the threshold-key topic step got its receipt:
\* context.createdResources.topics.push(topicId)
trackTopic ==
    /\ ~HookRunning
    /\ nextTopic < MaxTopics
    /\ nextTopic' = nextTopic + 1
    /\ topics' = Append(topics, nextTopic + 1)
    /\ UNCHANGED <<createdAccounts, hook, nextAccount>>

\* createAccountWithHbar got its receipt:
\* context.createdResources.accounts.push(accountId)
trackAccount ==
    /\ ~HookRunning
    /\ nextAccount < MaxAccounts
    /\ nextAccount' = nextAccount + 1
    /\ createdAccounts' = Append(createdAccounts, nextAccount + 1)
    /\ UNCHANGED <<topics, hook, nextTopic>>

\* The end of the After hook: the account loop only logs; then
\* topics = [], accounts = [], balanceCache.clear()
hookClears(h) ==
    /\ hook' = [h EXCEPT !.pc = "done"]
    /\ topics' = <<>>
    /\ createdAccounts' = <<>>
    /\ balanceCache' = EmptyCache

\* After(): up to `await messagePublisher.flushMessages()`
afterStarts ==
    /\ ~HookRunning
    /\ Cardinality({k \in DOMAIN flushes : flushes[k].caller = "After"}) < MaxHooks
    /\ LET r == flushMessages(pendingMessages, flushes, nextMsg, "After") IN
       /\ pendingMessages' = r.pendingMessages
       /\ flushes' = r.flushes
       /\ hook' = [pc |-> "flushing", flush |-> Len(r.flushes), i |-> 0,
                   attempted |-> <<>>, logged |-> <<>>, tracked |-> topics]
    /\ UNCHANGED <<nextMsg, topics, createdAccounts, nextTopic, nextAccount, balanceCache>>

\* flushMessages() resolved: enter the topic loop, or finish if it is empty
afterFlushResolved ==
    /\ hook.pc = "flushing"
    /\ flushes[hook.flush].promise = "resolved"
    /\ IF topics = <<>>
       THEN hookClears(hook)
       ELSE /\ hook' = [hook EXCEPT !.pc = "deleting", !.i = 1,
                                    !.attempted = <<topics[1]>>]
            /\ UNCHANGED <<topics, createdAccounts, balanceCache>>
    /\ UNCHANGED <<pubVars, nextTopic, nextAccount>>

\* flushMessages() rejected: the await throws and the hook ends there
afterFlushRejected ==
    /\ hook.pc = "flushing"
    /\ flushes[hook.flush].promise = "rejected"
    /\ hook' = [hook EXCEPT !.pc = "failed"]
    /\ UNCHANGED <<pubVars, topics, createdAccounts, nextTopic, nextAccount, balanceCache>>

\* Mutant of afterDeleteEnds: no try/catch around the deletion
afterDeleteEnds_NoCatch(ok) ==
    /\ hook.pc = "deleting"
    /\ IF ~ok
       THEN /\ hook' = [hook EXCEPT !.pc = "failed"]
            /\ UNCHANGED <<topics, createdAccounts, balanceCache>>
       ELSE IF hook.i < Len(topics)
       THEN /\ hook' = [hook EXCEPT !.i = hook.i + 1,
                                    !.attempted = Append(hook.attempted, topics[hook.i + 1])]
            /\ UNCHANGED <<topics, createdAccounts, balanceCache>>
       ELSE hookClears(hook)
    /\ UNCHANGED <<pubVars, nextTopic, nextAccount>>

\* The deletion of topics[hook.i] ends (ok: receipt; ~ok: it threw, which the
\* catch logs); the loop goes on to the next topic or the hook finishes.
afterDeleteEnds(ok) ==
    /\ hook.pc = "deleting"
    /\ LET h == IF ok THEN hook
                ELSE [hook EXCEPT !.logged = Append(hook.logged, topics[hook.i])]
       IN  IF hook.i < Len(topics)
           THEN /\ hook' = [h EXCEPT !.i = hook.i + 1,
                                     !.attempted = Append(hook.attempted, topics[hook.i + 1])]
                /\ UNCHANGED <<topics, createdAccounts, balanceCache>>
           ELSE hookClears(h)
    /\ UNCHANGED <<pubVars, nextTopic, nextAccount>>

(***************************************************************************)
(* The steps' bindings, and the Account Pool Resolver                      *)
(*                                                                         *)
(* Two step files each have their own client and their own first account:  *)
(* the topic steps (client, context.firstAccount) and the token steps      *)
(* (client, firstAccount).  Cucumber runs one step at a time, so at most   *)
(* one resolver step is running: resolver.impl says which one, resolver.pc *)
(* is "idle" (none has run), "awaiting" (balance queries are in flight),   *)
(* "bound" (the step passed) or "NoEligibleAccount" (assert.fail).         *)
(* resolver.seen maps each account whose lookup has returned to the        *)
(* balance the lookup returned.  resolver.liveAbove is history: the        *)
(* accounts whose live balance was above resolver.min at some time since   *)
(* the step was called.                                                    *)
(***************************************************************************)
\* The configured pool `accounts`, in configuration order
Pool == <<"0.0.1001", "0.0.1002">>

\* The minimum balances the steps are called with
Mins == {5, 10}

NoAccount == "none"

IdleResolver ==
    [impl |-> "none", pc |-> "idle", min |-> 0, seen |-> <<>>, i |-> 0,
     account |-> NoAccount, liveAbove |-> {}]

EmptyContext ==
    [firstAccount |-> NoAccount, secondAccount |-> NoAccount,
     topicId |-> 0, thresholdKey |-> [keys |-> <<>>, threshold |-> 0, present |-> FALSE]]

StepsIdle ==
    /\ resolver = IdleResolver
    /\ operator = [topic |-> NoAccount, token |-> NoAccount]
    /\ context = EmptyContext
    /\ firstAccount = NoAccount

\* Mutant of Eligible: the comparison is >= instead of >
Eligible_Inclusive(balance, min) == balance >= min

\* balance > minimumBalance  /  hbar > expectedBalance
Eligible(balance, min) == balance > min

\* eligibleAccounts.find(({ balance }) => balance > minimumBalance)
FirstEligible(seen, min) ==
    LET idx == {k \in DOMAIN Pool : Eligible(seen[Pool[k]], min)} IN
    IF idx = {} THEN NoAccount
    ELSE Pool[CHOOSE k \in idx : \A j \in idx : k <= j]

LiveAbove(min) == {a \in AccountIds : liveBalance[a] > min}

\* Topic steps, 'a first account with more than N hbars': the call.  The map
\* calls getHbarBalance for every account of the pool, in order, before the
\* first await: each fresh cache entry is returned at once, every other
\* account gets a live query.
topicResolve(min) ==
    /\ resolver.pc # "awaiting"
    /\ calls = <<>>
    /\ LET hits == {a \in AccountIds : IsFresh(balanceCache[a], now)}
           misses == SelectSeq(Pool, LAMBDA a : a \notin hits)
       IN  /\ calls' = [k \in DOMAIN misses |->
                           [account |-> misses[k],
                            stale |-> balanceCache[misses[k]].present]]
           /\ resolver' = [impl |-> "topic", pc |-> "awaiting", min |-> min,
                           seen |-> [a \in hits |-> balanceCache[a].balance],
                           i |-> 0, account |-> NoAccount,
                           liveAbove |-> LiveAbove(min)]
    /\ UNCHANGED <<balanceCache, liveBalance, returns, bindVars>>

\* One of the step's live queries answers (getHbarBalance stores and returns it)
topicResolveAnswer(c) ==
    /\ resolver.impl = "topic" /\ resolver.pc = "awaiting"
    /\ balanceQueryReturns(c, 0)
    /\ resolver' = [resolver EXCEPT
                       !.seen = @ @@ (calls[c].account :> liveBalance[calls[c].account])]
    /\ UNCHANGED bindVars

\* Promise.all resolved: find the first suitable account and bind it, or fail
topicResolveEnds ==
    /\ resolver.impl = "topic" /\ resolver.pc = "awaiting"
    /\ calls = <<>>
    /\ LET suitable == FirstEligible(resolver.seen, resolver.min) IN
       IF suitable # NoAccount
       THEN /\ operator' = [operator EXCEPT !.topic = suitable]
            /\ context' = [context EXCEPT !.firstAccount = suitable]
            /\ resolver' = [resolver EXCEPT !.pc = "bound", !.account = suitable]
       ELSE /\ resolver' = [resolver EXCEPT !.pc = "NoEligibleAccount"]
            /\ UNCHANGED <<operator, context>>
    /\ UNCHANGED <<cacheVars, firstAccount>>

\* Token steps, 'A Hedera account with more than N hbar': the call, up to the
\* first account's live balance query
tokenResolve(min) ==
    /\ resolver.pc # "awaiting"
    /\ resolver' = [impl |-> "token", pc |-> "awaiting", min |-> min, seen |-> <<>>,
                    i |-> 1, account |-> NoAccount, liveAbove |-> LiveAbove(min)]
    /\ UNCHANGED <<cacheVars, bindVars>>

\* getAccountBalance(acc) answers: bind acc and return, or go on to the next
\* account of the pool, or fail after the last one
tokenResolveAnswer ==
    /\ resolver.impl = "token" /\ resolver.pc = "awaiting"
    /\ LET acc == Pool[resolver.i]
           hbar == liveBalance[acc]
           r == [resolver EXCEPT !.seen = @ @@ (acc :> hbar)]
       IN  IF Eligible(hbar, resolver.min)
           THEN /\ operator' = [operator EXCEPT !.token = acc]
                /\ firstAccount' = acc
                /\ resolver' = [r EXCEPT !.pc = "bound", !.account = acc]
                /\ UNCHANGED context
           ELSE /\ resolver' = IF resolver.i < Len(Pool)
                               THEN [r EXCEPT !.i = resolver.i + 1]
                               ELSE [r EXCEPT !.pc = "NoEligibleAccount"]
                /\ UNCHANGED bindVars
    /\ UNCHANGED cacheVars

(***************************************************************************)
(* Transactions                                                            *)
(*                                                                         *)
(* A transaction object of the SDK: its type, its token transfer legs, its *)
(* amount, the fee payer of its transaction id (the operator of the client *)
(* it was frozen with), the accounts whose keys have signed it, and the    *)
(* receipt the network has for it ("none": not submitted, "pending":       *)
(* submitted and not at consensus yet, else the receipt's status).  log is *)
(* history: the freeze, sign and submit operations applied to it, in order.*)
(***************************************************************************)
NoTx ==
    [type |-> "none", legs |-> <<>>, amount |-> 0, payer |-> NoAccount,
     signers |-> {}, log |-> <<>>, receipt |-> "none"]

\* The number of times t has been submitted
Submissions(t) == Cardinality({k \in DOMAIN t.log : t.log[k] = "submit"})

IsFrozen(t) == \E k \in DOMAIN t.log : t.log[k] = "freeze"

\* Mutant of freezeWith: the transaction id is not bound to the operator
freezeWith_NoPayer(t, op) == [t EXCEPT !.log = Append(@, "freeze")]

\* tx.freezeWith(client): the transaction id names the client's operator as payer
freezeWith(t, op) == [t EXCEPT !.payer = op, !.log = Append(@, "freeze")]

\* tx.sign(privateKey)
sign(t, key) == [t EXCEPT !.signers = @ \cup {key}, !.log = Append(@, "sign")]

\* tx.execute(client): freezes an unfrozen transaction, signs with the
\* operator's key when the operator is the payer, and submits
execute(t, op) ==
    LET f == IF IsFrozen(t) THEN t ELSE freezeWith(t, op) IN
    [f EXCEPT !.signers = IF f.payer = op THEN @ \cup {op} ELSE @,
              !.log = Append(@, "submit"),
              !.receipt = "pending"]

\* The accounts the token steps' Given steps created (accountWithHBar), and
\* the account the topic steps' createAccountWithHbar creates
NewAccount ==
    [second |-> "0.0.2002", third |-> "0.0.2003", fourth |-> "0.0.2004",
     topicSecond |-> "0.0.3001"]

TransferTypes ==
    {"Transfer first>to", "Transfer first>second", "Transfer second>first",
     "Transfer first+second>third+fourth"}

\* The accounts a transfer debits
Debited(t) == {acc \in DOMAIN t.legs : t.legs[acc] < 0}

\* error.status._code
StatusCode(status) ==
    CASE status = "SUCCESS" -> 22
      [] status = "INVALID_SIGNATURE" -> 7
      [] status = "TOKEN_NOT_ASSOCIATED_TO_ACCOUNT" -> 184
      [] status = "TOKEN_MAX_SUPPLY_REACHED" -> 236
      [] OTHER -> 0

\* tokenDecimals: every token is created with 2 decimals
tokenDecimals == 2

\* initialSupply: 100
InitialSupply == 100

(***************************************************************************)
(* The steps as programs                                                   *)
(*                                                                         *)
(* A step, with the helpers it calls, is the sequence of the operations it *)
(* applies, in the order of the source; "await" marks the places where the *)
(* step gives the event loop back.  An operation is a pair <<what, arg>>.  *)
(***************************************************************************)
Await == <<"await", "">>

\* const resp = await tx.execute(client); await resp.getReceipt(client)
\* (executeTransaction in the topic steps)
AwaitReceipt == << <<"execute", "">>, Await, <<"getReceipt", "">>, Await >>

\* When A topic is created with the memo ... with the first account as the
\* submit key: createTopic(memo, firstPrivateKey), whose submit key is a PrivateKey
topicStepOps ==
    << <<"assert", "firstAccount">>,
       <<"build", "TopicCreate">>, <<"freeze", "">>, Await,
       <<"sign", "first">>, Await >> \o AwaitReceipt \o << <<"push", "topic">> >>

\* publishMessage(message, topicId, firstPrivateKey); flushMessages submits
\* each queued message the same way
publishMessageOps ==
    << <<"build", "TopicMessageSubmit">>, <<"freeze", "">>,
       <<"sign", "first">>, Await >> \o AwaitReceipt

\* Mutant of publishStepOps: the topic is not checked
publishStepOps_NoTopicCheck == << <<"assert", "firstAccount">> >> \o publishMessageOps

\* When The message ... is published to the topic
publishStepOps ==
    << <<"assert", "firstAccount">>, <<"assert", "topicId">> >> \o publishMessageOps

\* Then The message ... is received by the topic and can be printed to the console
subscribeStepOps == << <<"assert", "topicId">>, <<"subscribe", "">>, Await >>

\* Given A second account with more than N hbars (createAccountWithHbar)
secondAccountStepOps ==
    << <<"build", "AccountCreate">> >> \o AwaitReceipt \o << <<"push", "account">> >>

\* Given A M of N threshold key with the first and second account
thresholdKeyStepOps == << <<"assert", "accounts">>, <<"thresholdKey", "">> >>

\* When A topic is created with the memo ... with the threshold key as the submit key
thresholdTopicStepOps ==
    << <<"assert", "thresholdKey">>,
       <<"build", "TopicCreate">>, <<"freeze", "">>, Await,
       <<"sign", "second">>, Await >> \o AwaitReceipt \o << <<"push", "topic">> >>

\* After: the deletion of one tracked topic
deleteTopicOps == << <<"build", "TopicDelete">>, <<"freeze", "">> >> \o AwaitReceipt

\* createHTTToken
createHTTTokenOps ==
    << <<"build", "TokenCreate">>, <<"freeze", "">>, <<"sign", "first">>, Await >>
    \o AwaitReceipt \o << <<"query", "TokenInfo">>, Await >>

\* Mutant of mintTokensOps: the transaction is signed before it is frozen
mintTokensOps_SignBeforeFreeze ==
    << <<"build", "TokenMint">>, <<"sign", "first">>, Await, <<"freeze", "">> >>
    \o AwaitReceipt

\* mintTokens
mintTokensOps ==
    << <<"build", "TokenMint">>, <<"freeze", "">>, <<"sign", "first">>, Await >>
    \o AwaitReceipt

\* transferTokens(firstAccount, toAccount, tokenId, amount)
transferTokensOps ==
    << <<"build", "TokenAssociate">>, <<"freeze", "">>, <<"sign", "to">>, Await,
       <<"execute", "">>, Await,
       <<"build", "Transfer first>to">>, <<"freeze", "">>, <<"sign", "first">>, Await >>
    \o AwaitReceipt

\* Then An attempt to mint N additional tokens succeeds
mintSucceedsOps ==
    mintTokensOps \o << <<"query", "balance">>, Await, <<"assert", "balance">> >>

\* Then An attempt to mint tokens fails (the try/catch is in Throw)
mintFailsOps == mintTokensOps \o << <<"assert", "code">> >>

\* Given A second / third / fourth Hedera account with N hbar and M HTT tokens
givenAccountOps ==
    << <<"build", "AccountCreate">> >> \o AwaitReceipt
    \o mintTokensOps \o transferTokensOps \o << <<"query", "balance">>, Await >>

\* Given A token named Test Token (HTT) with N tokens, in the scenario
\* 'Create a token transfer transaction paid for by the recipient'
tokenWithTransferOps == createHTTTokenOps \o transferTokensOps

\* When The first account creates a transaction to transfer N HTT tokens to the second account
createTransferOps ==
    << <<"build", "TokenAssociate">>, <<"freeze", "">>, <<"sign", "second">>, Await >>
    \o AwaitReceipt
    \o << <<"build", "Transfer first>second">>, <<"freeze", "">>, <<"store", "">>,
          <<"sign", "first">>, Await >>

\* When The first account submits the transaction
submitOps ==
    << <<"load", "">> >> \o AwaitReceipt \o << <<"getRecord", "">>, Await, <<"setRecord", "">> >>

\* When The second account creates a transaction to transfer N HTT tokens to the first account
secondCreatesOps ==
    << <<"build", "Transfer second>first">>, <<"freeze", "">>,
       <<"sign", "second">>, Await, <<"store", "">> >>

\* Then The first account has paid for the transaction fee
feePayerOps == << <<"assert", "payer">> >>

\* Mutant of redistributionOps: only the first account signs
redistributionOps_FirstOnly ==
    << <<"build", "Transfer first+second>third+fourth">>, <<"freeze", "">>, <<"store", "">>,
       <<"sign", "first">>, Await >>

\* When A transaction is created to transfer N HTT tokens out of the first and
\* second account and ... into the third account and ... into the fourth account
redistributionOps ==
    << <<"build", "Transfer first+second>third+fourth">>, <<"freeze", "">>, <<"store", "">>,
       <<"sign", "first">>, Await, <<"sign", "second">>, Await >>

TopicSites ==
    {"topic", "publish", "subscribe", "secondAccount", "thresholdKey",
     "thresholdTopic", "deleteTopic"}

TokenSites ==
    {"createToken", "mintSucceeds", "mintFails", "givenAccount", "tokenWithTransfer",
     "createTransfer", "submit", "secondCreates", "redistribution", "feePayer"}

Program(site) ==
    CASE site = "topic" -> topicStepOps
      [] site = "publish" -> publishStepOps
      [] site = "subscribe" -> subscribeStepOps
      [] site = "secondAccount" -> secondAccountStepOps
      [] site = "thresholdKey" -> thresholdKeyStepOps
      [] site = "thresholdTopic" -> thresholdTopicStepOps
      [] site = "deleteTopic" -> deleteTopicOps
      [] site = "createToken" -> createHTTTokenOps
      [] site = "mintSucceeds" -> mintSucceedsOps
      [] site = "mintFails" -> mintFailsOps
      [] site = "givenAccount" -> givenAccountOps
      [] site = "tokenWithTransfer" -> tokenWithTransferOps
      [] site = "createTransfer" -> createTransferOps
      [] site = "submit" -> submitOps
      [] site = "secondCreates" -> secondCreatesOps
      [] site = "redistribution" -> redistributionOps
      [] site = "feePayer" -> feePayerOps
      [] OTHER -> <<>>

(***************************************************************************)
(* Running a step                                                          *)
(*                                                                         *)
(* call is the step that runs (or ran last): its program, the position     *)
(* after the await it is suspended at, its arguments (a, b, to), the       *)
(* transaction it works on (tx), the transaction it built before that one  *)
(* (prev), whether tx is the object transferTransaction refers to (alias), *)
(* its result ("running", "passed", or the error it threw) and the status  *)
(* of the receipt error it caught.  before is history: the treasury's      *)
(* token balance when the step was called.                                 *)
(***************************************************************************)
IdleCall ==
    [site |-> "none", pc |-> 0, a |-> 0, b |-> 0, to |-> NoAccount, tx |-> NoTx,
     prev |-> NoTx, alias |-> FALSE, result |-> "none", status |-> "none", before |-> 0]

PipelineIdle ==
    /\ call = IdleCall
    /\ transferTransaction = NoTx
    /\ transactionRecord = NoAccount
    /\ tokens = 0

\* The client of the file the step is in
File(site) == IF site \in TopicSites THEN "topic" ELSE "token"

\* What a step reads and writes besides its call: the module variables and
\* the context, and what it pushes and whether it opens a subscription
Machine(c) ==
    [c |-> c, tt |-> transferTransaction, tr |-> transactionRecord, ctx |-> context,
     push |-> "none", sub |-> FALSE]

Account(role, m) ==
    CASE role = "first" ->
           IF m.c.site \in TopicSites THEN m.ctx.firstAccount ELSE firstAccount
      [] role = "second" ->
           IF m.c.site \in TopicSites THEN m.ctx.secondAccount ELSE NewAccount.second
      [] role = "to" -> m.c.to
      [] OTHER -> NoAccount

\* addTokenTransfer(tokenId, account, amount) of each transfer the steps build
Legs(type, m) ==
    LET first == Account("first", m)
        amount == m.c.a
    IN  CASE type = "Transfer first>to" ->
               (first :> 0 - amount) @@ (m.c.to :> amount)
          [] type = "Transfer first>second" ->
               (first :> 0 - amount) @@ (NewAccount.second :> amount)
          [] type = "Transfer second>first" ->
               (NewAccount.second :> 0 - amount) @@ (first :> amount)
          [] type = "Transfer first+second>third+fourth" ->
               (first :> 0 - amount) @@ (NewAccount.second :> 0 - amount)
               @@ (NewAccount.third :> amount) @@ (NewAccount.fourth :> amount)
          [] OTHER -> <<>>

\* const adjusted = tokenAmount * 10 ** tokenDecimals
Adjusted(tokenAmount) == tokenAmount * 10 ^ tokenDecimals

\* setAmount / setInitialSupply / the legs' amount
TxAmount(type, c) ==
    IF type = "TokenMint" /\ c.site = "mintSucceeds" THEN Adjusted(c.a)
    ELSE IF type \in {"TokenMint", "TokenCreate"} \cup TransferTypes THEN c.a
    ELSE 0

\* new KeyList(publicKeys, requiredSigns)
KeyList(keys, threshold) == [keys |-> keys, threshold |-> threshold, present |-> TRUE]

\* accountsInvolved.slice(0, totalKeys)
Slice(seq, n) == SubSeq(seq, 1, IF n < Len(seq) THEN n ELSE Len(seq))

\* Mutant of Holds: the topic check also wants the topic to be tracked still
Holds_TrackedTopic(what, m) ==
    CASE what = "firstAccount" -> m.ctx.firstAccount # NoAccount
      [] what = "topicId" ->
           m.ctx.topicId # 0 /\ m.ctx.topicId \in {topics[k] : k \in DOMAIN topics}
      [] what = "accounts" ->
           m.ctx.firstAccount # NoAccount /\ m.ctx.secondAccount # NoAccount
      [] what = "thresholdKey" ->
           m.ctx.secondAccount # NoAccount /\ m.ctx.thresholdKey.present
      [] what = "balance" -> tokens = Adjusted(m.c.a)
      [] what = "code" -> StatusCode(m.c.status) = 236
      [] what = "payer" -> m.tr = firstAccount
      [] OTHER -> FALSE

\* The assertions of the steps
Holds(what, m) ==
    CASE what = "firstAccount" -> m.ctx.firstAccount # NoAccount
      [] what = "topicId" -> m.ctx.topicId # 0
      [] what = "accounts" ->
           m.ctx.firstAccount # NoAccount /\ m.ctx.secondAccount # NoAccount
      [] what = "thresholdKey" ->
           m.ctx.secondAccount # NoAccount /\ m.ctx.thresholdKey.present
      [] what = "balance" -> tokens = Adjusted(m.c.a)
      [] what = "code" -> StatusCode(m.c.status) = 236
      [] what = "payer" -> m.tr = firstAccount
      [] OTHER -> FALSE

Fail(m, kind) == [m EXCEPT !.c.result = kind]

\* One operation of a step
Do(o, m) ==
    LET c == m.c
        op == operator[File(c.site)]
    IN  CASE o[1] = "assert" ->
               IF Holds(o[2], m) THEN m ELSE Fail(m, "AssertionError")
          [] o[1] = "build" ->
               IF o[2] \in TransferTypes /\ Account("first", m) = NoAccount
               THEN Fail(m, "Error")
               ELSE [m EXCEPT !.c.tx = [NoTx EXCEPT !.type = o[2],
                                                    !.amount = TxAmount(o[2], c),
                                                    !.legs = Legs(o[2], m)],
                              !.c.prev = IF c.tx = NoTx THEN c.prev ELSE c.tx,
                              !.c.alias = FALSE]
          [] o[1] = "freeze" ->
               IF op = NoAccount THEN Fail(m, "Error")
               ELSE [m EXCEPT !.c.tx = freezeWith(c.tx, op)]
          [] o[1] = "sign" ->
               IF Account(o[2], m) = NoAccount THEN Fail(m, "Error")
               ELSE [m EXCEPT !.c.tx = sign(c.tx, Account(o[2], m))]
          [] o[1] = "execute" ->
               IF op = NoAccount THEN Fail(m, "Error")
               ELSE [m EXCEPT !.c.tx = execute(c.tx, op)]
          [] o[1] = "store" -> [m EXCEPT !.tt = c.tx, !.c.alias = TRUE]
          [] o[1] = "load" ->
               IF m.tt = NoTx THEN Fail(m, "Error")
               ELSE [m EXCEPT !.c.tx = m.tt, !.c.alias = TRUE]
          [] o[1] = "setRecord" -> [m EXCEPT !.tr = c.tx.payer]
          [] o[1] = "thresholdKey" ->
               [m EXCEPT !.ctx.thresholdKey =
                   KeyList(Slice(<<m.ctx.firstAccount, m.ctx.secondAccount>>, c.b), c.a)]
          [] o[1] = "push" -> [m EXCEPT !.push = o[2]]
          [] o[1] = "subscribe" -> [m EXCEPT !.sub = TRUE]
          [] OTHER -> m

\* transferTransaction refers to the transaction object itself
Step(o, m) ==
    LET r == Do(o, m) IN
    IF r.c.alias THEN [r EXCEPT !.tt = r.c.tx] ELSE r

RECURSIVE Run(_, _)
\* The step runs from position pc to its next await, to its end or to a throw
Run(m, pc) ==
    LET prog == Program(m.c.site) IN
    IF m.c.result # "running" THEN m
    ELSE IF pc > Len(prog) THEN [m EXCEPT !.c.pc = pc, !.c.result = "passed"]
    ELSE IF prog[pc] = Await THEN [m EXCEPT !.c.pc = pc + 1]
    ELSE Run(Step(prog[pc], m), pc + 1)

Throw_CatchAll(m, kind, status) ==
    IF m.c.site = "mintFails"
    THEN Run([m EXCEPT !.c.status = status], Len(Program(m.c.site)))
    ELSE [m EXCEPT !.c.result = kind, !.c.status = status]

\* An awaited call rejects.  'An attempt to mint tokens fails' catches: a
\* ReceiptStatusError leaves its code in errorStatusCode and the step goes on
\* to its assertion; anything else is rethrown, as everywhere else.
Throw(m, kind, status) ==
    IF m.c.site = "mintFails" /\ kind = "ReceiptStatusError"
    THEN Run([m EXCEPT !.c.status = status], Len(Program(m.c.site)))
    ELSE [m EXCEPT !.c.result = kind, !.c.status = status]

\* What the step did takes effect
Commit(m) ==
    /\ call' = m.c
    /\ transferTransaction' = m.tt
    /\ transactionRecord' = m.tr
    /\ CASE m.push = "topic" ->
              trackTopic /\ context' = [m.ctx EXCEPT !.topicId = nextTopic + 1]
         [] m.push = "account" ->
              trackAccount /\ context' = [m.ctx EXCEPT !.secondAccount = NewAccount.topicSecond]
         [] OTHER -> context' = m.ctx /\ UNCHANGED resVars
    /\ IF m.sub
       THEN \E expected \in Texts : subscribeToTopic(expected, DEFAULT_TIMEOUT)
       ELSE UNCHANGED subVars
    /\ UNCHANGED <<tokens, resolver, operator, firstAccount>>

\* Cucumber calls a step (or the hook a helper): it runs to its first await
stepStarts(site, a, b, to) ==
    /\ call.result # "running"
    /\ site = "submit" => Submissions(transferTransaction) < MaxSubmits
    /\ Commit(Run(Machine([IdleCall EXCEPT !.site = site, !.a = a, !.b = b, !.to = to,
                                          !.result = "running", !.before = tokens]), 1))

\* The awaited call settles and the step runs on: execute() answers or throws
\* (ok), getReceipt() returns the receipt once the network has it, or throws
\* a ReceiptStatusError when its status is not SUCCESS
stepResumes(ok) ==
    /\ call.result = "running"
    /\ LET awaited == Program(call.site)[call.pc - 2][1]
           m == Machine(call)
       IN  CASE awaited = "execute" ->
                  Commit(IF ok THEN Run(m, call.pc) ELSE Throw(m, "Error", "none"))
             [] awaited = "getReceipt" ->
                  /\ ok
                  /\ call.tx.receipt # "pending"
                  /\ Commit(IF call.tx.receipt = "SUCCESS"
                            THEN Run(m, call.pc)
                            ELSE Throw(m, "ReceiptStatusError", call.tx.receipt))
             [] awaited = "subscribe" ->
                  /\ ok
                  /\ Settled(promise)
                  /\ Commit(IF promise.state = "resolved"
                            THEN Run(m, call.pc)
                            ELSE Throw(m, "Error", "none"))
             [] OTHER -> ok /\ Commit(Run(m, call.pc))

\* The treasury's token balance once the network has applied transaction t
BalanceAfter(t) ==
    CASE t.type = "TokenCreate" -> t.amount
      [] t.type = "TokenMint" -> tokens + t.amount
      [] t.type \in TransferTypes ->
           tokens + (IF firstAccount \in DOMAIN t.legs THEN t.legs[firstAccount] ELSE 0)
      [] OTHER -> tokens

\* The receipt statuses the network can give transaction t: a transfer is
\* accepted only if every debited account has signed it
Statuses(t) ==
    LET applies == 0 <= BalanceAfter(t) /\ BalanceAfter(t) <= MaxTokens IN
    CASE t.type \in TransferTypes ->
           IF ~(Debited(t) \subseteq t.signers) THEN {"INVALID_SIGNATURE"}
           ELSE {"TOKEN_NOT_ASSOCIATED_TO_ACCOUNT"}
                \cup (IF applies THEN {"SUCCESS"} ELSE {})
      [] t.type = "TokenMint" ->
           {"TOKEN_MAX_SUPPLY_REACHED", "INVALID_SIGNATURE"}
           \cup (IF applies THEN {"SUCCESS"} ELSE {})
      [] OTHER -> {"SUCCESS", "INVALID_SIGNATURE"}

\* The network reaches consensus on a submitted transaction of the step
consensus(which, status) ==
    /\ call[which].receipt = "pending"
    /\ status \in Statuses(call[which])
    /\ call' = [call EXCEPT ![which].receipt = status]
    /\ transferTransaction' =
          IF which = "tx" /\ call.alias
          THEN [transferTransaction EXCEPT !.receipt = status]
          ELSE transferTransaction
    /\ tokens' = IF status = "SUCCESS" THEN BalanceAfter(call[which]) ELSE tokens
    /\ UNCHANGED <<transactionRecord, resolver, bindVars>>

\* The arguments the steps are called with: a and b are the numbers of the
\* step's text, to is the account a Given step creates
Args(site) ==
    CASE site = "thresholdKey" ->
           [a : 0 .. MaxKeyCount, b : 0 .. MaxKeyCount, to : {NoAccount}]
      [] site = "mintSucceeds" -> [a : {1}, b : {0}, to : {NoAccount}]
      [] site = "createToken" -> [a : {0, InitialSupply}, b : {0}, to : {NoAccount}]
      [] site = "tokenWithTransfer" ->
           [a : {InitialSupply}, b : {0}, to : {NewAccount.second}]
      [] site = "givenAccount" ->
           [a : {InitialSupply}, b : {0},
            to : {NewAccount.second, NewAccount.third, NewAccount.fourth}]
      [] site \in TokenSites -> [a : {InitialSupply}, b : {0}, to : {NoAccount}]
      [] OTHER -> [a : {0}, b : {0}, to : {NoAccount}]

(***************************************************************************)
(* Specifications                                                          *)
(***************************************************************************)
Init ==
    /\ now = 0
    /\ SubIdle
    /\ PubIdle
    /\ ResIdle
    /\ CacheIdle
    /\ StepsIdle
    /\ PipelineIdle

\* ---- the subscription wait ----
SubTick == Tick(MaxTicks) /\ UNCHANGED <<stepVars, subVars, pubVars, resVars, cacheVars>>

SubSubscribe ==
    /\ \E expected \in Texts, timeout \in Timeouts : subscribeToTopic(expected, timeout)
    /\ UNCHANGED <<stepVars, now, pubVars, resVars, cacheVars>>

SubTimeout == onTimeout /\ UNCHANGED <<stepVars, now, pubVars, resVars, cacheVars>>

SubError ==
    /\ \E error \in SubscriptionErrors : onError(error)
    /\ UNCHANGED <<stepVars, now, pubVars, resVars, cacheVars>>

SubMessage ==
    /\ \E contents \in Contents : onMessage(contents)
    /\ UNCHANGED <<stepVars, now, pubVars, resVars, cacheVars>>

SubNext == SubTick \/ SubSubscribe \/ SubTimeout \/ SubError \/ SubMessage

SubSpec == Init /\ [][SubNext]_vars

\* Time passes and an expired timer's callback is run by the event loop.
SubFairSpec == SubSpec /\ WF_vars(SubTick) /\ WF_vars(SubTimeout)

\* ---- the message publisher ----
PubPublish == publish(MaxPublish) /\ UNCHANGED <<stepVars, now, subVars, resVars, cacheVars>>

PubFlush == explicitFlush /\ UNCHANGED <<stepVars, now, subVars, resVars, cacheVars>>

PubSubmission == submissionStep /\ UNCHANGED <<stepVars, now, subVars, resVars, cacheVars>>

PubNext == PubPublish \/ PubFlush \/ PubSubmission

PubSpec == Init /\ [][PubNext]_vars

\* ---- the balance cache ----
CacheTick == Tick(MaxCacheTicks) /\ UNCHANGED <<stepVars, subVars, pubVars, resVars, cacheVars>>

CacheCall ==
    /\ \E account \in AccountIds : getHbarBalance(account, MaxCalls, MaxReturns)
    /\ UNCHANGED <<stepVars, now, subVars, pubVars, resVars>>

CacheReturn ==
    /\ \E c \in DOMAIN calls : balanceQueryReturns(c, MaxReturns)
    /\ UNCHANGED <<stepVars, now, subVars, pubVars, resVars>>

CacheLive ==
    /\ \E account \in AccountIds, balance \in Balances : liveBalanceChanges(account, balance)
    /\ UNCHANGED <<stepVars, now, subVars, pubVars, resVars>>

CacheNext == CacheTick \/ CacheCall \/ CacheReturn \/ CacheLive

CacheSpec == Init /\ [][CacheNext]_vars

\* ---- the account pool resolvers ----
ResolverTick == Tick(MaxCacheTicks) /\ UNCHANGED <<subVars, pubVars, resVars, cacheVars, stepVars>>

ResolverTopicCall ==
    /\ \E min \in Mins : topicResolve(min)
    /\ UNCHANGED <<now, subVars, pubVars, resVars, pipeVars>>

ResolverTopicAnswer ==
    /\ \E c \in DOMAIN calls : topicResolveAnswer(c)
    /\ UNCHANGED <<now, subVars, pubVars, resVars, pipeVars>>

ResolverTopicEnds == topicResolveEnds /\ UNCHANGED <<now, subVars, pubVars, resVars, pipeVars>>

ResolverTokenCall ==
    /\ \E min \in Mins : tokenResolve(min)
    /\ UNCHANGED <<now, subVars, pubVars, resVars, pipeVars>>

ResolverTokenAnswer == tokenResolveAnswer /\ UNCHANGED <<now, subVars, pubVars, resVars, pipeVars>>

\* The network changes a balance; the history of a running resolver step notes
\* an account whose live balance is now above the step's minimum
ResolverLive ==
    /\ \E account \in AccountIds, balance \in Balances :
          /\ liveBalanceChanges(account, balance)
          /\ resolver' = IF resolver.pc = "awaiting" /\ balance > resolver.min
                         THEN [resolver EXCEPT !.liveAbove = @ \cup {account}]
                         ELSE resolver
    /\ UNCHANGED <<now, subVars, pubVars, resVars, pipeVars, bindVars>>

ResolverNext ==
    \/ ResolverTick \/ ResolverTopicCall \/ ResolverTopicAnswer \/ ResolverTopicEnds
    \/ ResolverTokenCall \/ ResolverTokenAnswer \/ ResolverLive

ResolverSpec == Init /\ [][ResolverNext]_vars

\* ---- the steps ----
\* Cucumber runs one step at a time
NoStepRuns == call.result # "running" /\ resolver.pc # "awaiting"

StepsCall(sites) ==
    /\ NoStepRuns
    /\ \E site \in sites : \E arg \in Args(site) : stepStarts(site, arg.a, arg.b, arg.to)
    /\ UNCHANGED <<now, pubVars, cacheVars>>

StepsResume ==
    /\ \E ok \in BOOLEAN : stepResumes(ok)
    /\ UNCHANGED <<now, pubVars, cacheVars>>

StepsConsensus ==
    /\ \E which \in {"tx", "prev"} : \E status \in Statuses(call[which]) :
          consensus(which, status)
    /\ UNCHANGED <<now, subVars, pubVars, resVars, cacheVars>>

StepsTopicResolver ==
    \/ NoStepRuns /\ ResolverTopicCall
    \/ ResolverTopicAnswer
    \/ ResolverTopicEnds

StepsTokenResolver ==
    \/ NoStepRuns /\ ResolverTokenCall
    \/ ResolverTokenAnswer

\* The topic steps, with their resolver and the subscription's callbacks
TopicStepsNext ==
    \/ StepsCall(TopicSites) \/ StepsResume \/ StepsConsensus
    \/ StepsTopicResolver
    \/ SubMessage \/ SubError

TopicStepsSpec == Init /\ [][TopicStepsNext]_vars

\* The token steps, with their resolver
TokenStepsNext ==
    \/ StepsCall(TokenSites) \/ StepsResume \/ StepsConsensus
    \/ StepsTokenResolver

\* A run of one feature: the steps of the topic file or the steps of the
\* token file (the two files share neither client nor variables)
NoTopicStepYet ==
    /\ context = EmptyContext /\ operator.topic = NoAccount
    /\ resolver.impl # "topic" /\ call.site \notin TopicSites

NoTokenStepYet ==
    /\ firstAccount = NoAccount /\ transferTransaction = NoTx
    /\ resolver.impl # "token" /\ call.site \notin TokenSites

PipelineNext ==
    \/ NoTokenStepYet /\ TopicStepsNext
    \/ NoTopicStepYet /\ TokenStepsNext

PipelineSpec == Init /\ [][PipelineNext]_vars

\* The steps that build and submit transfers
TransferNext ==
    \/ StepsCall({"givenAccount", "tokenWithTransfer", "createTransfer", "submit", "secondCreates", "redistribution"}) \/ StepsResume \/ StepsConsensus
    \/ StepsTokenResolver

TransferSpec == Init /\ [][TransferNext]_vars

\* The steps that create a token and mint
MintNext ==
    \/ StepsCall({"createToken", "mintSucceeds", "mintFails"}) \/ StepsResume \/ StepsConsensus
    \/ StepsTokenResolver

MintSpec == Init /\ [][MintNext]_vars

\* The steps of the scenarios that check the fee payer, while the network
\* changes the balances of the pool
FeePayerNext ==
    \/ StepsCall({"secondCreates", "redistribution", "submit", "feePayer"}) \/ StepsResume \/ StepsConsensus
    \/ StepsTokenResolver
    \/ ResolverLive

FeePayerSpec == Init /\ [][FeePayerNext]_vars

\* ---- scenarios and the After hook ----
\* While a scenario runs (no hook is running) its steps create topics and
\* accounts, queue messages and look balances up; the hook runs between scenarios.
StepTopic ==
    /\ trackTopic
    /\ UNCHANGED <<stepVars, now, subVars, pubVars, cacheVars>>

StepAccount ==
    /\ trackAccount
    /\ UNCHANGED <<stepVars, now, subVars, pubVars, cacheVars>>

StepPublish ==
    /\ ~HookRunning
    /\ publish(MaxHookPublish)
    /\ UNCHANGED <<stepVars, now, subVars, resVars, cacheVars>>

StepSubmission == submissionStep /\ UNCHANGED <<stepVars, now, subVars, resVars, cacheVars>>

StepBalance ==
    /\ ~HookRunning
    /\ \E account \in AccountIds : getHbarBalance(account, MaxHookCalls, 0)
    /\ UNCHANGED <<stepVars, now, subVars, pubVars, resVars>>

StepBalanceReturn ==
    /\ \E c \in DOMAIN calls : balanceQueryReturns(c, 0)
    /\ UNCHANGED <<stepVars, now, subVars, pubVars, resVars>>

HookStart ==
    /\ afterStarts
    /\ UNCHANGED <<stepVars, now, subVars, liveBalance, calls, returns>>

HookFlushResolved ==
    /\ afterFlushResolved
    /\ UNCHANGED <<stepVars, now, subVars, liveBalance, calls, returns>>

HookFlushRejected ==
    /\ afterFlushRejected
    /\ UNCHANGED <<stepVars, now, subVars, liveBalance, calls, returns>>

HookDelete ==
    /\ \E ok \in BOOLEAN : afterDeleteEnds(ok)
    /\ UNCHANGED <<stepVars, now, subVars, liveBalance, calls, returns>>

TeardownNext ==
    \/ StepTopic \/ StepAccount \/ StepPublish \/ StepSubmission
    \/ StepBalance \/ StepBalanceReturn
    \/ HookStart \/ HookFlushResolved \/ HookFlushRejected \/ HookDelete

TeardownSpec == Init /\ [][TeardownNext]_vars

\* ---- scenarios of the topic feature, each ended by the After hook ----
\* The steps run one at a time and the hook runs between scenarios; the
\* steps publish with publishMessage, so the hook's flush finds an empty queue
ScenarioNext ==
    \/ ~HookRunning /\ StepsCall({"topic", "publish", "subscribe"})
    \/ StepsResume \/ StepsConsensus
    \/ ~HookRunning /\ StepsTopicResolver
    \/ SubMessage \/ SubError
    \/ NoStepRuns /\ HookStart
    \/ HookFlushResolved \/ HookDelete

ScenarioSpec == Init /\ [][ScenarioNext]_vars

(***************************************************************************)
(* Properties of the subscription wait                                     *)
(***************************************************************************)
Unsettled == promise.state = "pending" /\ subscriptionHandle = "live"

OnlyOtherMessages == observed \cap {"match", "error"} = {}

\* C1: while the wait is pending and the subscription live, the delivery of a
\* message whose decoded text equals the expected string resolves the wait,
\* cancels the timeout timer and unsubscribes; a resolved wait stays resolved,
\* its timer never fires and its subscription is closed.
C1_MatchStep ==
    \A contents \in Contents :
        (Unsettled /\ onMessage(contents) /\ BufferToString(contents) = expectedMessage)
        => /\ promise'.state = "resolved"
           /\ timeoutId' = "cleared"
           /\ subscriptionHandle' = "unsubscribed"

C1_ResolvedStays ==
    promise.state = "resolved" => (promise' = promise /\ timeoutId' = "cleared")

C1_ResolvedInv ==
    promise.state = "resolved"
    => timeoutId = "cleared" /\ subscriptionHandle = "unsubscribed" /\ "match" \in observed

C1_Match == [][C1_MatchStep /\ C1_ResolvedStays]_vars /\ []C1_ResolvedInv

\* C1 witness: the wait was resolved by a match after a non-matching message,
\* and the clock has passed the deadline without a timeout rejection.
C1_Witness ==
    /\ promise.state = "resolved"
    /\ "other" \in observed
    /\ now >= deadline

\* C2: as long as only non-matching messages (or none) were delivered and no
\* subscription error occurred, the wait never resolves; it is pending with the
\* timer armed and the subscription open, or rejected with the timeout error no
\* earlier than the deadline; a non-matching message changes nothing; and the
\* pending wait is eventually rejected by the timeout unless a match or an error
\* arrives.
C2_OtherStep ==
    \A contents \in Contents :
        (onMessage(contents) /\ BufferToString(contents) # expectedMessage)
        => UNCHANGED <<promise, timeoutId, deadline, subscriptionHandle>>

C2_TimedOut ==
    /\ promise = [state |-> "rejected", reason |-> TimeoutError(expectedMessage)]
    /\ timeoutId = "fired"
    /\ now >= deadline

C2_Inv ==
    (promise.state # "none" /\ OnlyOtherMessages)
    => \/ promise.state = "pending" /\ timeoutId = "armed" /\ subscriptionHandle = "live"
       \/ C2_TimedOut

C2_Timeout ==
    /\ []C2_Inv
    /\ [][C2_OtherStep]_vars
    /\ (promise.state = "pending" ~> (C2_TimedOut \/ ~OnlyOtherMessages))

\* C2 witness: the default timeout rejected a wait that saw a non-matching message
C2_Witness ==
    /\ C2_TimedOut
    /\ deadline >= DEFAULT_TIMEOUT
    /\ observed = {"other"}

\* C3: in every state where the wait has settled (matched, subscription error
\* or timed out) its subscription has been unsubscribed.
C3_NoDanglingSubscription == Settled(promise) => subscriptionHandle = "unsubscribed"

\* C4: a subscription error delivered while the wait is pending rejects the wait
\* with exactly that error and cancels the timeout timer; afterwards the
\* rejection stands and the timer never fires.
C4_ErrorStep ==
    \A error \in SubscriptionErrors :
        (Unsettled /\ onError(error))
        => /\ promise' = [state |-> "rejected", reason |-> error]
           /\ timeoutId' = "cleared"

C4_RejectedStays ==
    (promise.state = "rejected" /\ promise.reason \in SubscriptionErrors)
    => (promise' = promise /\ timeoutId' = "cleared")

C4_RejectedInv ==
    (promise.state = "rejected" /\ promise.reason \in SubscriptionErrors)
    => timeoutId = "cleared" /\ "error" \in observed

C4_Error == [][C4_ErrorStep /\ C4_RejectedStays]_vars /\ []C4_RejectedInv

\* C4 witness: the wait was rejected with a subscription error and the clock
\* has passed the deadline without the timer firing.
C4_Witness ==
    /\ promise.state = "rejected"
    /\ promise.reason \in SubscriptionErrors
    /\ now >= deadline
    /\ timeoutId = "cleared"

(***************************************************************************)
(* Properties of the message publisher                                     *)
(***************************************************************************)
Last(seq) == seq[Len(seq)]

OnlyAutoFlushes == \A k \in DOMAIN flushes : flushes[k].caller = "publish"

\* C5: a publish() that makes the queue 5 long flushes all 5 and leaves 0
\* queued, any other publish() only queues its entry; so with no explicit flush
\* the queue holds (publishes mod 5) entries after (publishes div 5) flushes;
\* an explicit flushMessages() on k <= 4 entries submits all k and leaves 0.
C5_PublishStep ==
    publish(MaxPublish)
    => IF Len(pendingMessages) = 4
       THEN /\ pendingMessages' = <<>>
            /\ Len(flushes') = Len(flushes) + 1
            /\ Last(flushes').batch = Append(pendingMessages, nextMsg')
            /\ \A i \in 1..5 : Last(flushes').status[i] = "inflight"
       ELSE /\ pendingMessages' = Append(pendingMessages, nextMsg')
            /\ Len(pendingMessages') \in 1..4
            /\ flushes' = flushes

C5_FlushStep ==
    explicitFlush
    => /\ pendingMessages' = <<>>
       /\ Len(flushes') = Len(flushes) + 1
       /\ Last(flushes').batch = pendingMessages
       /\ Len(pendingMessages) <= 4
       /\ \A i \in 1..Len(pendingMessages) : Last(flushes').status[i] = "inflight"

C5_Inv ==
    /\ Len(pendingMessages) <= 4
    /\ OnlyAutoFlushes
       => /\ Len(pendingMessages) = nextMsg % 5
          /\ Len(flushes) = nextMsg \div 5

C5_Batching == [][C5_PublishStep /\ C5_FlushStep]_vars /\ []C5_Inv

\* C5 witness: the 5th publish() flushed a batch of 5 and left the queue empty
C5_Witness ==
    /\ nextMsg = 5
    /\ pendingMessages = <<>>
    /\ Len(flushes) = 1
    /\ flushes[1].caller = "publish"
    /\ Len(flushes[1].batch) = 5

\* Number of places an entry is at: in the queue and in the flushes' snapshots
CountIn(seq, id) == Cardinality({i \in DOMAIN seq : seq[i] = id})

RECURSIVE CountInBatches(_, _)
CountInBatches(k, id) ==
    IF k = 0 THEN 0 ELSE CountIn(flushes[k].batch, id) + CountInBatches(k - 1, id)

Occurrences(id) == CountIn(pendingMessages, id) + CountInBatches(Len(flushes), id)

\* C6: every published entry is either queued or in the snapshot of exactly one
\* flush, never in both and never twice; a flush's snapshot holds only entries
\* published before the flush started, has one submission per entry, and never
\* changes afterwards.
C6_Inv ==
    /\ \A id \in 1..nextMsg : Occurrences(id) = 1
    /\ \A k \in DOMAIN flushes :
          /\ \A i \in DOMAIN flushes[k].batch : flushes[k].batch[i] <= flushes[k].startedAt
          /\ DOMAIN flushes[k].status = DOMAIN flushes[k].batch

C6_SnapshotFixed ==
    \A k \in DOMAIN flushes :
        /\ k \in DOMAIN flushes'
        /\ flushes'[k].batch = flushes[k].batch

C6_SnapshotIsolation == []C6_Inv /\ [][C6_SnapshotFixed]_vars

\* C6 witness: an entry was queued while a flush is in flight, and a later flush
\* took it while the first one is still in flight
C6_Witness ==
    \E k, l \in DOMAIN flushes :
        /\ k < l
        /\ \E i \in DOMAIN flushes[k].status : flushes[k].status[i] = "inflight"
        /\ \E j \in DOMAIN flushes[l].batch : flushes[l].batch[j] > flushes[k].startedAt
        /\ pendingMessages # <<>>

\* C7: a flushMessages() call has not completed (resolved or rejected) while the
\* submission of one of its snapshot entries is still in flight.
C7_FlushAwaitsAll ==
    \A k \in DOMAIN flushes :
        flushes[k].promise # "pending"
        => \A i \in DOMAIN flushes[k].status : flushes[k].status[i] # "inflight"

(***************************************************************************)
(* Properties of the After hook                                            *)
(***************************************************************************)
\* C8: a failed topic deletion is logged, leaves the hook running (or done),
\* and the deletion of the next tracked topic is attempted; the hook attempts
\* the tracked topics in order, has attempted all of them when it returns, and
\* never fails once it has started deleting.
C8_FailedDeleteStep ==
    afterDeleteEnds(FALSE)
    => /\ hook'.logged = Append(hook.logged, topics[hook.i])
       /\ IF hook.i < Len(topics)
          THEN /\ hook'.pc = "deleting"
               /\ hook'.attempted = Append(hook.attempted, topics[hook.i + 1])
          ELSE hook'.pc = "done"

C8_DeletingStep == hook.pc = "deleting" => hook'.pc \in {"deleting", "done"}

C8_Inv ==
    /\ hook.pc = "deleting"
       => /\ hook.i \in 1..Len(topics)
          /\ hook.attempted = SubSeq(topics, 1, hook.i)
          /\ topics = hook.tracked
    /\ hook.pc = "done" => hook.attempted = hook.tracked
    /\ hook.pc = "failed" => hook.attempted = <<>> /\ hook.logged = <<>>

C8_ContinueOnError == [][C8_FailedDeleteStep /\ C8_DeletingStep]_vars /\ []C8_Inv

\* C8 witness: the hook returned after the deletion of the first of two tracked
\* topics failed and the deletion of the second was attempted
C8_Witness ==
    /\ hook.pc = "done"
    /\ Len(hook.tracked) = 2
    /\ hook.logged = <<hook.tracked[1]>>
    /\ hook.attempted = hook.tracked

\* C9: whenever a run of the After hook ends (it returns or throws), the tracked
\* topics and accounts, the balance cache and the publisher's queue are empty.
C9_HookEndsStep ==
    (HookRunning /\ ~HookRunning')
    => /\ topics' = <<>>
       /\ createdAccounts' = <<>>
       /\ balanceCache' = EmptyCache
       /\ pendingMessages' = <<>>

C9_EndState == [][C9_HookEndsStep]_vars

(***************************************************************************)
(* Properties of the balance cache                                         *)
(***************************************************************************)
\* C10: a getHbarBalance call made less than 5000 ms after the capture of the
\* account's entry returns the entry's balance, starts no live query and leaves
\* the cache unchanged, whatever the live balance is; a call made with no
\* entry or 5000 ms or more after its capture starts one live query and returns
\* nothing yet, and when the query answers, the call returns the live balance
\* and stores it with the time of the answer as the new capture time.
C10_CallStep ==
    \A account \in AccountIds :
        getHbarBalance(account, MaxCalls, MaxReturns)
        => LET entry == balanceCache[account] IN
           /\ balanceCache' = balanceCache
           /\ IF entry.present /\ now - entry.timestamp < 5000
              THEN /\ calls' = calls
                   /\ Last(returns').account = account
                   /\ Last(returns').hit
                   /\ Last(returns').value = entry.balance
              ELSE /\ calls' = Append(calls, [account |-> account, stale |-> entry.present])
                   /\ returns' = returns

C10_ReturnStep ==
    \A c \in DOMAIN calls :
        balanceQueryReturns(c, MaxReturns)
        => LET account == calls[c].account IN
           /\ Last(returns').account = account
           /\ ~Last(returns').hit
           /\ Last(returns').value = liveBalance[account]
           /\ balanceCache'[account] = Entry(liveBalance[account], now)
           /\ \A a \in AccountIds \ {account} : balanceCache'[a] = balanceCache[a]
           /\ Len(calls') = Len(calls) - 1

\* Cache entries are captured in the past; a stale call found an entry
C10_Inv ==
    \A a \in AccountIds : balanceCache[a].present => balanceCache[a].timestamp <= now

C10_CacheTTL == [][C10_CallStep /\ C10_ReturnStep]_vars /\ []C10_Inv

\* C10 witness: a call was answered from the cache although the live balance
\* had changed, and the next call, made on the expired entry, re-queried and
\* returned the changed balance, which is now the entry captured at this time
C10_Witness ==
    /\ Len(returns) = 2
    /\ returns[1].account = returns[2].account
    /\ returns[1].hit /\ returns[1].value # returns[1].live
    /\ ~returns[2].hit /\ returns[2].stale
    /\ returns[2].value # returns[1].value
    /\ balanceCache[returns[2].account] = Entry(returns[2].value, now)
    /\ now >= 5000

(***************************************************************************)
(* Properties of the account pool resolvers                                *)
(***************************************************************************)
PoolIndex(a) == CHOOSE k \in DOMAIN Pool : Pool[k] = a

\* The first account of the step file whose resolver ran last
BoundFirstAccount ==
    IF resolver.impl = "topic" THEN context.firstAccount ELSE firstAccount

\* C11: a resolver step that passed has bound, as its client's operator and as
\* its first account, the first account in pool order whose looked-up balance
\* is strictly greater than the minimum (every earlier account of the pool was
\* looked up and had a balance less than or equal to the minimum); a resolver
\* step fails with NoEligibleAccount only after it has looked every account of
\* the pool up and none had a balance strictly greater than the minimum
\* (a balance equal to the minimum does not qualify), and the failing step
\* binds nothing.  Both hold for the topic steps' and the token steps' resolver.
C11_Inv ==
    /\ resolver.pc = "bound" =>
          /\ resolver.account \in DOMAIN resolver.seen
          /\ resolver.seen[resolver.account] > resolver.min
          /\ \A k \in 1 .. PoolIndex(resolver.account) - 1 :
                /\ Pool[k] \in DOMAIN resolver.seen
                /\ resolver.seen[Pool[k]] <= resolver.min
          /\ operator[resolver.impl] = resolver.account
          /\ BoundFirstAccount = resolver.account
    /\ resolver.pc = "NoEligibleAccount" =>
          /\ DOMAIN resolver.seen = AccountIds
          /\ \A a \in AccountIds : resolver.seen[a] <= resolver.min

C11_FailStep ==
    (resolver'.pc = "NoEligibleAccount" /\ resolver.pc = "awaiting")
    => UNCHANGED bindVars

C11_Selection == []C11_Inv /\ [][C11_FailStep]_vars

\* C11 witness: the topic steps' resolver skipped the first account of the
\* pool, whose balance equalled the minimum, and bound the second one, after
\* the token steps' resolver had bound an account too
C11_Witness ==
    /\ resolver.impl = "topic" /\ resolver.pc = "bound"
    /\ resolver.account = Pool[2]
    /\ resolver.seen[Pool[1]] = resolver.min
    /\ operator.topic = Pool[2] /\ context.firstAccount = Pool[2]
    /\ firstAccount # NoAccount

\* C12: whenever a resolver step has passed, the live balance of the account
\* it bound was strictly greater than the minimum at some time between the
\* call of the step and the binding.
C12_LiveBalance ==
    resolver.pc = "bound" => resolver.account \in resolver.liveAbove

(***************************************************************************)
(* Properties of the transaction pipeline                                  *)
(***************************************************************************)
\* The transaction objects a state holds
Transactions == {call.tx, call.prev, transferTransaction} \ {NoTx}

\* freeze, then signatures, then submissions
WellOrdered(log) ==
    \/ log = <<>>
    \/ /\ log[1] = "freeze"
       /\ \A i \in 2 .. Len(log) :
             /\ log[i] # "freeze"
             /\ log[i] = "sign" => \A j \in 1 .. i - 1 : log[j] # "submit"

\* C13: the operations applied to every transaction of the steps are, in
\* order, one freeze, then zero or more signatures, then its submissions: no
\* signature is applied to a transaction that has not been frozen and none
\* after it has been submitted, and no transaction is submitted unfrozen.
C13_PipelineOrder == \A t \in Transactions : WellOrdered(t.log)

\* C13 witness: the transfer out of the first and the second account was
\* frozen, signed by both and then submitted, and has its receipt
C13_Witness ==
    /\ transferTransaction.type = "Transfer first+second>third+fourth"
    /\ transferTransaction.log = <<"freeze", "sign", "sign", "submit">>
    /\ transferTransaction.receipt = "SUCCESS"


\* ---- C14 ----

SubmittedTransfers ==
    {t \in Transactions : t.type \in TransferTypes /\ Submissions(t) >= 1}

\* C14: every transfer the steps have submitted (the two-party transfers in
\* either direction and the redistribution out of the first and second
\* account) carries, from its submission on, a signature of every account
\* with a negative leg, so the network never rejects it for a missing signature
C14_MultiSignature ==
    \A t \in SubmittedTransfers :
        /\ Debited(t) # {}
        /\ Debited(t) \subseteq t.signers
        /\ t.receipt # "INVALID_SIGNATURE"

\* The redistribution, debiting the first and the second account, has been
\* submitted with both signatures and accepted
C14_Witness ==
    /\ call.site = "submit"
    /\ call.result = "passed"
    /\ firstAccount # NoAccount
    /\ Debited(transferTransaction) = {firstAccount, NewAccount.second}
    /\ Debited(transferTransaction) \subseteq transferTransaction.signers
    /\ Submissions(transferTransaction) = 1
    /\ transferTransaction.receipt = "SUCCESS"

\* ---- C15 ----

\* The step 'An attempt to mint tokens fails' ends in this transition
MintFailsEnds == call'.site = "mintFails" /\ call'.result # "running" /\ call' # call

\* The step is waiting for the receipt of the mint it submitted and the
\* network has given it the status
MintReceipt(status) ==
    /\ call.site = "mintFails"
    /\ call.result = "running"
    /\ Program(call.site)[call.pc - 2][1] = "getReceipt"
    /\ call.tx.type = "TokenMint"
    /\ call.tx.receipt = status

C15_Step ==
    MintFailsEnds =>
        /\ call'.result = "passed" <=>
              \E status \in {"TOKEN_MAX_SUPPLY_REACHED"} :
                  MintReceipt(status) /\ StatusCode(status) = 236
        /\ (\E status \in {"INVALID_SIGNATURE", "TOKEN_NOT_ASSOCIATED_TO_ACCOUNT", "SUCCESS"} :
               MintReceipt(status)) => call'.result = "AssertionError"
        /\ ~(\E status \in {"TOKEN_MAX_SUPPLY_REACHED", "INVALID_SIGNATURE",
                            "TOKEN_NOT_ASSOCIATED_TO_ACCOUNT", "SUCCESS"} :
               MintReceipt(status)) => call'.result = "Error"

\* C15: 'An attempt to mint tokens fails' passes if and only if the receipt
\* of the mint is a rejection with code 236; a rejection with another status
\* and a successful mint end it in an assertion error, and an error that is
\* not a receipt-status error is rethrown
C15_MintFails == [][C15_Step]_vars

\* The mint was rejected with TOKEN_MAX_SUPPLY_REACHED and the step passed
C15_Witness ==
    /\ call.site = "mintFails"
    /\ call.result = "passed"
    /\ call.status = "TOKEN_MAX_SUPPLY_REACHED"
    /\ call.tx.receipt = "TOKEN_MAX_SUPPLY_REACHED"

\* ---- C16 ----

\* The step 'An attempt to mint N additional tokens succeeds' has ended with
\* the verdict of its assertion, after its mint was applied
MintSucceedsEnded ==
    /\ call.site = "mintSucceeds"
    /\ call.result \in {"passed", "AssertionError"}
    /\ call.tx.type = "TokenMint"
    /\ call.tx.receipt = "SUCCESS"

C17_ThresholdKey ==
    (call.site = "thresholdKey" /\ call.result = "passed") =>
        /\ context.thresholdKey.present
        /\ context.thresholdKey.threshold <= Len(context.thresholdKey.keys)
        /\ Len(context.thresholdKey.keys) = call.b

\* ---- C18 ----

\* The client's operator and the first account are bound together
C18_Inv ==
    /\ operator.token = firstAccount
    /\ transactionRecord \in {NoAccount} \cup AccountIds

\* A step leaves a newly created transfer in transferTransaction: whichever
\* account it debits and whoever signed it, its payer is the first account,
\* the operator it was frozen with
C18_CreateStep ==
    (transferTransaction' # transferTransaction /\ Submissions(transferTransaction') = 0) =>
        /\ firstAccount # NoAccount
        /\ transferTransaction'.payer = firstAccount
        /\ transferTransaction'.payer = operator.token

\* The submit step records the payer of the transfer it submitted
C18_SubmitStep ==
    transactionRecord' # transactionRecord =>
        /\ call.site = "submit"
        /\ Submissions(transferTransaction) >= 1
        /\ transferTransaction.receipt = "SUCCESS"
        /\ transactionRecord' = transferTransaction.payer

\* C18: the fee payer recorded for a transfer the first account submits is
\* the first account, the operator the transfer was frozen with, whichever
\* account created and signed it, the second account included
C18_FeePayer == []C18_Inv /\ [][C18_CreateStep /\ C18_SubmitStep]_vars

\* The transfer the second account created and signed was submitted and the
\* recorded payer is the first account; the fee payer step passed
C18_Witness ==
    /\ call.site = "feePayer"
    /\ call.result = "passed"
    /\ transferTransaction.type = "Transfer second>first"
    /\ NewAccount.second \in transferTransaction.signers
    /\ transferTransaction.receipt = "SUCCESS"
    /\ transactionRecord = firstAccount
    /\ transactionRecord = transferTransaction.payer

\* ---- C19 ----

\* The topic steps that check for earlier state, and the state each lacks
PrerequisiteMissing(site) ==
    CASE site = "topic" -> context.firstAccount = NoAccount
      [] site = "publish" -> context.firstAccount = NoAccount \/ context.topicId = 0
      [] site = "subscribe" -> context.topicId = 0
      [] site = "thresholdKey" ->
           context.firstAccount = NoAccount \/ context.secondAccount = NoAccount
      [] site = "thresholdTopic" ->
           context.secondAccount = NoAccount \/ ~context.thresholdKey.present
      [] OTHER -> FALSE

C19_Step ==
    \A site \in {"topic", "publish", "subscribe", "thresholdKey", "thresholdTopic"} :
        \A arg \in Args(site) :
            (PrerequisiteMissing(site) /\ stepStarts(site, arg.a, arg.b, arg.to)) =>
                /\ call'.result = "AssertionError"
                /\ call'.tx = NoTx /\ call'.prev = NoTx
                /\ UNCHANGED <<context, resVars, subVars, pubVars>>
                /\ UNCHANGED <<transferTransaction, transactionRecord, operator>>

\* C19: a topic step called without the state it needs (publish or subscribe
\* without a topic, topic creation without a first account, the threshold key
\* steps without the accounts or the key) ends at once in an assertion error:
\* no transaction is built, signed or submitted, no subscription is opened,
\* and the context and the created resources are as before
C19_FailFast == [][C19_Step]_vars

\* The publish step was called with a first account but no topic, and failed
C19_Witness ==
    /\ call.site = "publish"
    /\ call.result = "AssertionError"
    /\ context.firstAccount # NoAccount
    /\ context.topicId = 0
    /\ call.tx = NoTx
    /\ subscriptionHandle = "none"

\* ---- C20 ----

\* The step submits its current transaction in this transition
Submits == call'.tx.receipt = "pending" /\ call'.tx # call.tx

\* C20: when a step submits a transaction, the transaction it submitted before
\* it (the association of the recipient before the transfer to the recipient,
\* in transferTokens and in the transfer-creating step) has been awaited to
\* its receipt, and the receipt is SUCCESS
C20_ReceiptFirst ==
    [][(Submits /\ call'.prev # NoTx) => call'.prev.receipt = "SUCCESS"]_vars

(***************************************************************************)
(* Properties of resource tracking, the settling of the wait and the       *)
(* After hook's frame                                                      *)
(***************************************************************************)
\* A step of the topic file obtains the receipt of the creation of a topic or
\* of an account: the id is appended to the created resources in the same
\* stretch of code, before the step returns
TrackedAtReceipt ==
    (/\ call.result = "running"
     /\ Program(call.site)[call.pc - 2][1] = "getReceipt"
     /\ call.tx.receipt = "SUCCESS"
     /\ call' # call
     /\ call'.tx = call.tx)
    => /\ call.tx.type = "TopicCreate" =>
             /\ topics' = Append(topics, context'.topicId)
             /\ context'.topicId \notin {topics[k] : k \in DOMAIN topics}
       /\ call.tx.type = "AccountCreate" =>
             /\ Len(createdAccounts') = Len(createdAccounts) + 1
             /\ createdAccounts'[Len(createdAccounts')] = nextAccount'

C21_TrackStep ==
    /\ trackTopic => topics' = Append(topics, nextTopic') /\ nextTopic' > nextTopic
    /\ trackAccount => createdAccounts' = Append(createdAccounts, nextAccount')

C21_TeardownStep ==
    (HookRunning /\ ~HookRunning') =>
        /\ hook'.tracked = topics
        /\ hook'.attempted = hook'.tracked

\* C21: every created topic and account is appended to the created resources
\* when its creation is receipted, and every topic tracked when the After hook
\* starts has had exactly one deletion attempt when that run of the hook ends
C21_TrackAndReclaim == [][C21_TrackStep /\ C21_TeardownStep]_vars

\* ---- C22 ----

\* While the wait is pending, the first terminal event decides its outcome
C22_FirstEvent ==
    promise.state = "pending" =>
        /\ \A contents \in Contents :
              (onMessage(contents) /\ BufferToString(contents) = expectedMessage)
              => promise'.state = "resolved"
        /\ \A error \in SubscriptionErrors :
              onError(error) => promise' = [state |-> "rejected", reason |-> error]
        /\ onTimeout
              => promise' = [state |-> "rejected", reason |-> TimeoutError(expectedMessage)]
        /\ promise' # promise =>
              \/ \E contents \in Contents :
                    onMessage(contents) /\ BufferToString(contents) = expectedMessage
              \/ \E error \in SubscriptionErrors : onError(error)
              \/ onTimeout

\* Events after the wait has settled leave its outcome as it is
C22_SettledStays == Settled(promise) => promise' = promise

\* The timer is cancelled or has fired only when the wait has settled
C22_Inv ==
    /\ promise.state = "pending" => timeoutId = "armed"
    /\ Settled(promise) => timeoutId \in {"cleared", "fired"}

\* C22: whatever the order of messages, subscription errors and the timer, a
\* wait opened by subscribeToTopic settles, given that time passes and an
\* expired timer that was not cancelled fires; its outcome is that of the
\* first match, error or timeout, and no later event changes it
C22_SettlesOnce ==
    /\ []C22_Inv
    /\ [][C22_FirstEvent /\ C22_SettledStays]_vars
    /\ (promise.state = "pending" ~> Settled(promise))

\* The wait was rejected by the timeout; afterwards a subscription error and a
\* matching message arrived and the rejection stands
C22_Witness ==
    /\ promise = [state |-> "rejected", reason |-> TimeoutError(expectedMessage)]
    /\ timeoutId = "fired"
    /\ {"match", "error"} \subseteq observed
    /\ subscriptionHandle = "unsubscribed"

\* ---- C23 ----

\* The last run of the After hook has deleted topic t
DeletedByTeardown(t) ==
    /\ hook.pc = "done"
    /\ t \in {hook.attempted[k] : k \in DOMAIN hook.attempted}
    /\ t \notin {hook.logged[k] : k \in DOMAIN hook.logged}
    /\ t \notin {topics[k] : k \in DOMAIN topics}

\* Whatever the After hook does, it writes neither the context's bindings nor
\* the client's operator
C23_Frame ==
    (hook' # hook) =>
        /\ context' = context
        /\ operator' = operator
        /\ resolver' = resolver

\* After the teardown, publish and subscribe called with the deleted topic
\* still in context.topicId pass their checks and go on to their transaction
\* or subscription
C23_StaleTopic ==
    (context.topicId # 0 /\ DeletedByTeardown(context.topicId)) =>
        /\ \A arg \in Args("publish") :
              (context.firstAccount # NoAccount
               /\ stepStarts("publish", arg.a, arg.b, arg.to))
              => /\ call'.result = "running"
                 /\ call'.tx.type = "TopicMessageSubmit"
        /\ \A arg \in Args("subscribe") :
              stepStarts("subscribe", arg.a, arg.b, arg.to)
              => /\ call'.result = "running"
                 /\ subscriptionHandle' = "live"

\* After the teardown context.topicId names the topic created last, which
\* the hook attempted to delete, and only the creation of a topic changes it
C23_Inv ==
    (hook.pc = "done" /\ topics = <<>> /\ hook.tracked # <<>>) =>
        /\ context.topicId = hook.tracked[Len(hook.tracked)]
        /\ hook.attempted = hook.tracked

C23_UntilNew ==
    context'.topicId # context.topicId => topics' = Append(topics, context'.topicId)

\* C23: the After hook leaves context.topicId, firstAccount, secondAccount,
\* thresholdKey and the client's operator as they are; so in the next scenario
\* the checks of the publish and subscribe steps pass although context.topicId
\* names a topic the teardown has deleted, until a new topic is created
C23_TeardownFrame ==
    []C23_Inv /\ [][C23_Frame /\ C23_StaleTopic /\ C23_UntilNew]_vars

\* After the hook deleted the topic, the publish step passed its checks with
\* the deleted topic and submitted a message to it
C23_Witness ==
    /\ call.site = "publish"
    /\ call.tx.type = "TopicMessageSubmit"
    /\ Submissions(call.tx) >= 1
    /\ context.topicId # 0
    /\ DeletedByTeardown(context.topicId)
    /\ operator.topic = context.firstAccount
====
